---- MODULE Spec2Model ----
(***************************************************************************)
(* State-machine model of the three Lightning web components of the        *)
(* repository:                                                             *)
(*   fosterApplicationForm   (the Step Wizard),                            *)
(*   familyMemberManagement  (the Collection Editor),                      *)
(*   accountOverview         (the Overview Reader).                        *)
(* A behaviour is the life of ONE component instance: `component` says     *)
(* which class was constructed, and only that class's handlers fire.       *)
(* WizardSpec, EditorSpec and OverviewSpec are the three classes; FairSpec *)
(* is the remote workflows of all three with every promise settling.       *)
(* Handlers are public methods of the class: none of them tests a busy     *)
(* flag, a step or a modal flag before acting unless the code below says   *)
(* so, hence they are enabled in every state.  An async handler is split   *)
(* at each await: the synchronous prefix is one action, and every settled  *)
(* promise runs its continuation as another action.                        *)
(***************************************************************************)
EXTENDS Integers, Sequences, FiniteSets, TLC

\* ------------------------------------------------------------------ bounds
\* Largest number of promises of one component that may be unsettled at once.
MaxInFlight == 2
\* Largest length of the wizard's local family-member list.
MaxMembers == 2

VARIABLES
    component,          \* which component class this instance is
    remoteCall,         \* the remote call issued by the latest step, if any
    \* --- fosterApplicationForm.js
    currentStep, showSuccess, errorMessage, isSubmitting,
    primaryApplicant, familyMembers, currentMember, householdInfo,
    submitPending,      \* unsettled submitApplication promises
    \* --- familyMemberManagement.js
    fmFamilyMembers, showModal, fmIsLoading, isSaving, fmErrorMessage,
    fmCurrentMember, isEditMode,
    savePending,        \* handleSaveMember runs awaiting create/update
    saveRefreshing,     \* handleSaveMember runs awaiting refreshApex
    deletePending,      \* handleDeleteMember runs awaiting deleteFamilyMember
    deleteRefreshing,   \* handleDeleteMember runs awaiting refreshApex
    \* --- accountOverview.js
    accountOverview, aoIsLoading, error, showCaseworkerModal,
    availableCaseworkers, selectedCaseworkerId, isLoadingCaseworkers,
    isSavingCaseworker,
    loadPending,        \* handleAssignCaseworker runs awaiting the fetch
    assignPending,      \* handleSaveCaseworker runs awaiting the mutation
    assignRefreshing    \* handleSaveCaseworker runs awaiting refreshApex

wizardVars == <<currentStep, showSuccess, errorMessage, isSubmitting,
                primaryApplicant, familyMembers, currentMember, householdInfo,
                submitPending>>
editorVars == <<fmFamilyMembers, showModal, fmIsLoading, isSaving,
                fmErrorMessage, fmCurrentMember, isEditMode, savePending,
                saveRefreshing, deletePending, deleteRefreshing>>
overviewVars == <<accountOverview, aoIsLoading, error, showCaseworkerModal,
                  availableCaseworkers, selectedCaseworkerId,
                  isLoadingCaseworkers, isSavingCaseworker, loadPending,
                  assignPending, assignRefreshing>>
vars == <<component, remoteCall, wizardVars, editorVars, overviewVars>>

\* ------------------------------------------------------- JavaScript values
Null == "null"
Undefined == "undefined"
\* undefined where the defined values are objects.
UndefinedObject == [type |-> "undefined"]
\* JavaScript truthiness of a string, null or undefined: '', null and
\* undefined are falsy.
Truthy(v) == v \notin {"", Null, Undefined}

NoCall == [op |-> "none"]
Call(op, arg) == [op |-> op, arg |-> arg]

\* Array.prototype.filter((_, i) => i !== index) with a 0-based index.
RECURSIVE FilterIndex(_, _, _)
FilterIndex(s, index, i) ==
    IF s = <<>> THEN <<>>
    ELSE (IF i # index THEN <<Head(s)>> ELSE <<>>)
         \o FilterIndex(Tail(s), index, i + 1)

\* ========================================================================
\* fosterApplicationForm.js
\* ========================================================================
Steps == {"step1", "step2", "step3", "step4"}
RequiredMsg == "Please fill in all required fields"
SubmitErrorMsg == "Error submitting application: "

ApplicantFields == {"firstName", "lastName", "email", "phone", "applicationType"}
\* The values a field-change event can carry for each applicant field.
ApplicantValues(field) ==
    IF field = "applicationType" THEN {"", "Foster Parent", "Caseworker"}
    ELSE {"", "x"}

EmptyApplicant ==
    [firstName |-> "", lastName |-> "", email |-> "", phone |-> "",
     applicationType |-> ""]
EmptyHousehold == [homeType |-> ""]
\* {} : the object without any property.
EmptyObject == [f \in {} |-> ""]
HouseholdValues == {"", "Own"}

\* getEmptyMember() of the wizard
getEmptyMember == [firstName |-> "", lastName |-> ""]
MemberFields == {"firstName", "lastName"}
MemberValues(field) == IF field = "firstName" THEN {"", "A"} ELSE {"", "B"}

isCaseworker == primaryApplicant.applicationType = "Caseworker"

\* A step of the wizard instance: the other classes' fields do not exist.
WizardStep ==
    /\ component = "wizard"
    /\ UNCHANGED <<component, editorVars, overviewVars>>

WizardInit ==
    /\ currentStep = "step1"
    /\ showSuccess = FALSE
    /\ errorMessage = ""
    /\ isSubmitting = FALSE
    /\ primaryApplicant = EmptyApplicant
    /\ familyMembers = <<>>
    /\ currentMember = getEmptyMember
    /\ householdInfo = EmptyHousehold
    /\ submitPending = 0

\* Mutant of handlePrimaryFieldChange: clearing the role does not reset the
\* step.
handlePrimaryFieldChange_KeepsStepOnClear(field, value) ==
    /\ WizardStep
    /\ primaryApplicant' = [primaryApplicant EXCEPT ![field] = value]
    /\ IF field = "applicationType" /\ Truthy(value)
          /\ primaryApplicant.applicationType # value
       THEN currentStep' = "step1"
       ELSE UNCHANGED currentStep
    /\ remoteCall' = NoCall
    /\ UNCHANGED <<showSuccess, errorMessage, isSubmitting, familyMembers,
                   currentMember, householdInfo, submitPending>>

\* Mutant of handlePrimaryFieldChange: a changed role does not reset the step.
handlePrimaryFieldChange_NoReset(field, value) ==
    /\ WizardStep
    /\ primaryApplicant' = [primaryApplicant EXCEPT ![field] = value]
    /\ remoteCall' = NoCall
    /\ UNCHANGED <<currentStep, showSuccess, errorMessage, isSubmitting,
                   familyMembers, currentMember, householdInfo, submitPending>>

handlePrimaryFieldChange(field, value) ==
    /\ WizardStep
    /\ primaryApplicant' = [primaryApplicant EXCEPT ![field] = value]
    /\ currentStep' = IF field = "applicationType"
                         /\ primaryApplicant.applicationType # value
                      THEN "step1" ELSE currentStep
    /\ remoteCall' = NoCall
    /\ UNCHANGED <<showSuccess, errorMessage, isSubmitting, familyMembers,
                   currentMember, householdInfo, submitPending>>

handleMemberFieldChange(field, value) ==
    /\ WizardStep
    /\ currentMember' = [currentMember EXCEPT ![field] = value]
    /\ remoteCall' = NoCall
    /\ UNCHANGED <<currentStep, showSuccess, errorMessage, isSubmitting,
                   primaryApplicant, familyMembers, householdInfo,
                   submitPending>>

handleHouseholdFieldChange(field, value) ==
    /\ WizardStep
    /\ householdInfo' = [householdInfo EXCEPT ![field] = value]
    /\ remoteCall' = NoCall
    /\ UNCHANGED <<currentStep, showSuccess, errorMessage, isSubmitting,
                   primaryApplicant, familyMembers, currentMember,
                   submitPending>>

\* The readings Date.now() can give (a wall clock: equal readings and
\* readings that go back are both possible).
ClockReadings == {1000, 1001}

\* Mutant of handleAddFamilyMember: the copy is put in front of the list.
handleAddFamilyMember_Prepend(now) ==
    /\ WizardStep
    /\ IF ~Truthy(currentMember.firstName) \/ ~Truthy(currentMember.lastName)
       THEN UNCHANGED <<familyMembers, currentMember>>
       ELSE /\ Len(familyMembers) < MaxMembers
            /\ familyMembers' =
                 <<[firstName |-> currentMember.firstName,
                    lastName |-> currentMember.lastName,
                    tempId |-> now]>> \o familyMembers
            /\ currentMember' = getEmptyMember
    /\ remoteCall' = NoCall
    /\ UNCHANGED <<currentStep, showSuccess, errorMessage, isSubmitting,
                   primaryApplicant, householdInfo, submitPending>>

\* `now` is the reading of Date.now() taken by the handler.
handleAddFamilyMember(now) ==
    /\ WizardStep
    /\ IF ~Truthy(currentMember.firstName) \/ ~Truthy(currentMember.lastName)
       THEN UNCHANGED <<familyMembers, currentMember>>
       ELSE /\ Len(familyMembers) < MaxMembers
            /\ familyMembers' =
                 familyMembers \o
                   <<[firstName |-> currentMember.firstName,
                      lastName |-> currentMember.lastName,
                      tempId |-> now]>>
            /\ currentMember' = getEmptyMember
    /\ remoteCall' = NoCall
    /\ UNCHANGED <<currentStep, showSuccess, errorMessage, isSubmitting,
                   primaryApplicant, householdInfo, submitPending>>

\* Mutant of handleRemoveMember: the index is taken as 1-based.
handleRemoveMember_OneBased(index) ==
    /\ WizardStep
    /\ familyMembers' = FilterIndex(familyMembers, index, 1)
    /\ remoteCall' = NoCall
    /\ UNCHANGED <<currentStep, showSuccess, errorMessage, isSubmitting,
                   primaryApplicant, currentMember, householdInfo,
                   submitPending>>

handleRemoveMember(index) ==
    /\ WizardStep
    /\ familyMembers' = FilterIndex(familyMembers, index, 0)
    /\ remoteCall' = NoCall
    /\ UNCHANGED <<currentStep, showSuccess, errorMessage, isSubmitting,
                   primaryApplicant, currentMember, householdInfo,
                   submitPending>>

\* Mutant of validateStep1: the phone is not validated.
validateStep1_NoPhone ==
    /\ Truthy(primaryApplicant.firstName)
    /\ Truthy(primaryApplicant.lastName)
    /\ Truthy(primaryApplicant.email)
    /\ Truthy(primaryApplicant.applicationType)

\* validateStep1() returns this value; when it is FALSE it has also set
\* errorMessage to RequiredMsg.
validateStep1 ==
    /\ Truthy(primaryApplicant.firstName)
    /\ Truthy(primaryApplicant.lastName)
    /\ Truthy(primaryApplicant.email)
    /\ Truthy(primaryApplicant.phone)
    /\ Truthy(primaryApplicant.applicationType)

\* Mutant of NextStep: the caseworker skip is missing.
NextStep_NoSkip ==
    CASE currentStep = "step1" -> "step2"
      [] currentStep = "step2" -> "step3"
      [] currentStep = "step3" -> "step4"
      [] OTHER -> currentStep

NextStep ==
    CASE currentStep = "step1" -> IF isCaseworker THEN "step4" ELSE "step2"
      [] currentStep = "step2" -> "step3"
      [] currentStep = "step3" -> "step4"
      [] OTHER -> currentStep

handleNext ==
    /\ WizardStep
    /\ IF currentStep = "step1" /\ ~validateStep1
       THEN /\ errorMessage' = RequiredMsg
            /\ UNCHANGED currentStep
       ELSE /\ currentStep' = NextStep
            /\ errorMessage' = ""
    /\ remoteCall' = NoCall
    /\ UNCHANGED <<showSuccess, isSubmitting, primaryApplicant, familyMembers,
                   currentMember, householdInfo, submitPending>>

\* Mutant of PreviousStep: the caseworker skip is missing.
PreviousStep_NoSkip ==
    CASE currentStep = "step4" -> "step3"
      [] currentStep = "step3" -> "step2"
      [] currentStep = "step2" -> "step1"
      [] OTHER -> currentStep

PreviousStep ==
    CASE currentStep = "step4" -> IF isCaseworker THEN "step1" ELSE "step3"
      [] currentStep = "step3" -> "step2"
      [] currentStep = "step2" -> "step1"
      [] OTHER -> currentStep

handlePrevious ==
    /\ WizardStep
    /\ currentStep' = PreviousStep
    /\ errorMessage' = ""
    /\ remoteCall' = NoCall
    /\ UNCHANGED <<showSuccess, isSubmitting, primaryApplicant, familyMembers,
                   currentMember, householdInfo, submitPending>>

\* Mutant of applicationData: the drafts are sent whatever the role.
applicationData_AlwaysDrafts ==
    [primaryApplicant |-> primaryApplicant,
     familyMembers |-> familyMembers,
     householdInfo |-> householdInfo]

\* The object handleFinalSubmit serialises.  JSON.stringify is a snapshot of
\* the values at the time of the call: strings, numbers and arrays of plain
\* objects are carried unchanged.
applicationData ==
    [primaryApplicant |-> primaryApplicant,
     familyMembers |-> IF isCaseworker THEN <<>> ELSE familyMembers,
     householdInfo |-> IF isCaseworker THEN EmptyObject ELSE householdInfo]

\* handleFinalSubmit up to its await.
handleFinalSubmit ==
    /\ WizardStep
    /\ submitPending < MaxInFlight
    /\ isSubmitting' = TRUE
    /\ errorMessage' = ""
    /\ remoteCall' = Call("submitApplication", applicationData)
    /\ submitPending' = submitPending + 1
    /\ UNCHANGED <<currentStep, showSuccess, primaryApplicant, familyMembers,
                   currentMember, householdInfo>>

\* submitApplication resolved: the rest of the try block, then finally.
SubmitResolved ==
    /\ WizardStep
    /\ submitPending > 0
    /\ submitPending' = submitPending - 1
    /\ showSuccess' = TRUE
    /\ isSubmitting' = FALSE
    /\ remoteCall' = NoCall
    /\ UNCHANGED <<currentStep, errorMessage, primaryApplicant, familyMembers,
                   currentMember, householdInfo>>

\* Mutant of SubmitRejected: the success flag is set after the try block, so
\* a rejection sets it too.
SubmitRejected_ShowsSuccess ==
    /\ WizardStep
    /\ submitPending > 0
    /\ submitPending' = submitPending - 1
    /\ errorMessage' = SubmitErrorMsg
    /\ showSuccess' = TRUE
    /\ isSubmitting' = FALSE
    /\ remoteCall' = NoCall
    /\ UNCHANGED <<currentStep, primaryApplicant, familyMembers,
                   currentMember, householdInfo>>

\* submitApplication rejected: the catch block, then finally.
SubmitRejected ==
    /\ WizardStep
    /\ submitPending > 0
    /\ submitPending' = submitPending - 1
    /\ errorMessage' = SubmitErrorMsg
    /\ isSubmitting' = FALSE
    /\ remoteCall' = NoCall
    /\ UNCHANGED <<currentStep, showSuccess, primaryApplicant, familyMembers,
                   currentMember, householdInfo>>

\* Mutant of handleNewApplication: the local member list is not emptied.
handleNewApplication_KeepsMembers ==
    /\ WizardStep
    /\ showSuccess' = FALSE
    /\ currentStep' = "step1"
    /\ primaryApplicant' = EmptyApplicant
    /\ currentMember' = getEmptyMember
    /\ householdInfo' = EmptyHousehold
    /\ errorMessage' = ""
    /\ remoteCall' = NoCall
    /\ UNCHANGED <<familyMembers, isSubmitting, submitPending>>

handleNewApplication ==
    /\ WizardStep
    /\ showSuccess' = FALSE
    /\ currentStep' = "step1"
    /\ primaryApplicant' = EmptyApplicant
    /\ familyMembers' = <<>>
    /\ currentMember' = getEmptyMember
    /\ householdInfo' = EmptyHousehold
    /\ errorMessage' = ""
    /\ remoteCall' = NoCall
    /\ UNCHANGED <<isSubmitting, submitPending>>

\* ========================================================================
\* familyMemberManagement.js
\* ========================================================================
LoadErrorMsg == "Error loading family members: "

\* getEmptyMember() of the editor
fmGetEmptyMember ==
    [id |-> Null, firstName |-> "", lastName |-> "", relationship |-> ""]
FmFields == {"firstName", "lastName", "relationship"}
FmValues(field) ==
    CASE field = "firstName" -> {"", "A", "C"}
      [] field = "lastName" -> {"", "B"}
      [] OTHER -> {"", "Spouse"}

\* The records getFamilyMembers can return, and the lists of them (record
\* ids are unique in a list).
ServerMembers ==
    {[id |-> "m1", firstName |-> "A", lastName |-> "B", relationship |-> "Spouse"],
     [id |-> "m1", firstName |-> "C", lastName |-> "B", relationship |-> "Spouse"],
     [id |-> "m2", firstName |-> "A", lastName |-> "B", relationship |-> "Spouse"]}
ServerLists ==
    {<<>>} \cup {<<m>> : m \in ServerMembers}
           \cup {<<pair[1], pair[2]>> :
                   pair \in {q \in ServerMembers \X ServerMembers :
                               q[1].id # q[2].id}}
MemberIds == {"m1", "m2", "m3"}

EditorStep ==
    /\ component = "editor"
    /\ UNCHANGED <<component, wizardVars, overviewVars>>

EditorInit ==
    /\ fmFamilyMembers = <<>>
    /\ showModal = FALSE
    /\ fmIsLoading = FALSE
    /\ isSaving = FALSE
    /\ fmErrorMessage = ""
    /\ fmCurrentMember = fmGetEmptyMember
    /\ isEditMode = FALSE
    /\ savePending = 0
    /\ saveRefreshing = 0
    /\ deletePending = 0
    /\ deleteRefreshing = 0

\* Unsettled promises of the editor.
EditorInFlight == savePending + saveRefreshing + deletePending + deleteRefreshing

\* A delivery of the getFamilyMembers wire: kind is "data", "error" or
\* "none" (neither property set).
wiredFamilyMembers(kind, data) ==
    /\ EditorStep
    /\ IF kind = "data"
       THEN /\ fmFamilyMembers' = data
            /\ fmIsLoading' = FALSE
            /\ fmErrorMessage' = ""
       ELSE IF kind = "error"
       THEN /\ fmErrorMessage' = LoadErrorMsg
            /\ fmIsLoading' = FALSE
            /\ UNCHANGED fmFamilyMembers
       ELSE /\ fmIsLoading' = TRUE
            /\ UNCHANGED <<fmFamilyMembers, fmErrorMessage>>
    /\ remoteCall' = NoCall
    /\ UNCHANGED <<showModal, isSaving, fmCurrentMember, isEditMode,
                   savePending, saveRefreshing, deletePending,
                   deleteRefreshing>>

handleAddMember ==
    /\ EditorStep
    /\ isEditMode' = FALSE
    /\ fmCurrentMember' = fmGetEmptyMember
    /\ showModal' = TRUE
    /\ remoteCall' = NoCall
    /\ UNCHANGED <<fmFamilyMembers, fmIsLoading, isSaving, fmErrorMessage,
                   savePending, saveRefreshing, deletePending,
                   deleteRefreshing>>

\* Array.prototype.find(m => m.id === memberId): the first match, if any.
FindIndex(members, memberId) ==
    LET hits == {i \in 1..Len(members) : members[i].id = memberId}
    IN IF hits = {} THEN 0 ELSE CHOOSE i \in hits : \A j \in hits : i <= j

handleEditMember(memberId) ==
    /\ EditorStep
    /\ IF FindIndex(fmFamilyMembers, memberId) # 0
       THEN /\ isEditMode' = TRUE
            /\ fmCurrentMember' =
                 fmFamilyMembers[FindIndex(fmFamilyMembers, memberId)]
            /\ showModal' = TRUE
       ELSE UNCHANGED <<isEditMode, fmCurrentMember, showModal>>
    /\ remoteCall' = NoCall
    /\ UNCHANGED <<fmFamilyMembers, fmIsLoading, isSaving, fmErrorMessage,
                   savePending, saveRefreshing, deletePending,
                   deleteRefreshing>>

\* Mutant of handleDeleteMember: the answer of confirm() is ignored.
handleDeleteMember_NoConfirm(memberId, confirmed) ==
    /\ EditorStep
    /\ EditorInFlight < MaxInFlight
    /\ fmIsLoading' = TRUE
    /\ remoteCall' = Call("deleteFamilyMember", memberId)
    /\ deletePending' = deletePending + 1
    /\ UNCHANGED <<fmFamilyMembers, showModal, isSaving, fmErrorMessage,
                   fmCurrentMember, isEditMode, savePending, saveRefreshing,
                   deleteRefreshing>>

\* handleDeleteMember up to its await; confirmed is what confirm() returned.
handleDeleteMember(memberId, confirmed) ==
    /\ EditorStep
    /\ IF confirmed
       THEN /\ EditorInFlight < MaxInFlight
            /\ fmIsLoading' = TRUE
            /\ remoteCall' = Call("deleteFamilyMember", memberId)
            /\ deletePending' = deletePending + 1
       ELSE /\ remoteCall' = NoCall
            /\ UNCHANGED <<fmIsLoading, deletePending>>
    /\ UNCHANGED <<fmFamilyMembers, showModal, isSaving, fmErrorMessage,
                   fmCurrentMember, isEditMode, savePending, saveRefreshing,
                   deleteRefreshing>>

\* deleteFamilyMember resolved: the handler calls refreshApex and awaits it.
DeleteResolved ==
    /\ EditorStep
    /\ deletePending > 0
    /\ deletePending' = deletePending - 1
    /\ deleteRefreshing' = deleteRefreshing + 1
    /\ remoteCall' = Call("refreshApex", "wiredFamilyMembersResult")
    /\ UNCHANGED <<fmFamilyMembers, showModal, fmIsLoading, isSaving,
                   fmErrorMessage, fmCurrentMember, isEditMode, savePending,
                   saveRefreshing>>

\* Mutant of DeleteRejected: the flag is cleared in the try block only, so a
\* rejection leaves it set.
DeleteRejected_NoFinally ==
    /\ EditorStep
    /\ deletePending > 0
    /\ deletePending' = deletePending - 1
    /\ remoteCall' = NoCall
    /\ UNCHANGED <<fmFamilyMembers, showModal, fmIsLoading, isSaving,
                   fmErrorMessage, fmCurrentMember, isEditMode, savePending,
                   saveRefreshing, deleteRefreshing>>

\* deleteFamilyMember rejected: catch, then finally.
DeleteRejected ==
    /\ EditorStep
    /\ deletePending > 0
    /\ deletePending' = deletePending - 1
    /\ fmIsLoading' = FALSE
    /\ remoteCall' = NoCall
    /\ UNCHANGED <<fmFamilyMembers, showModal, isSaving, fmErrorMessage,
                   fmCurrentMember, isEditMode, savePending, saveRefreshing,
                   deleteRefreshing>>

\* The refreshApex promise of handleDeleteMember settled (resolved, or
\* rejected into the catch block): finally.
DeleteRefreshSettled ==
    /\ EditorStep
    /\ deleteRefreshing > 0
    /\ deleteRefreshing' = deleteRefreshing - 1
    /\ fmIsLoading' = FALSE
    /\ remoteCall' = NoCall
    /\ UNCHANGED <<fmFamilyMembers, showModal, isSaving, fmErrorMessage,
                   fmCurrentMember, isEditMode, savePending, saveRefreshing,
                   deletePending>>

\* Mutant of handleFieldChange: the patch is also written into the published
\* item the draft was opened from (the draft shares the item's object).
handleFieldChange_InPlace(field, value) ==
    /\ EditorStep
    /\ fmCurrentMember' = [fmCurrentMember EXCEPT ![field] = value]
    /\ fmFamilyMembers' =
         [i \in 1..Len(fmFamilyMembers) |->
            IF fmFamilyMembers[i].id = fmCurrentMember.id
            THEN [fmFamilyMembers[i] EXCEPT ![field] = value]
            ELSE fmFamilyMembers[i]]
    /\ remoteCall' = NoCall
    /\ UNCHANGED <<showModal, fmIsLoading, isSaving, fmErrorMessage,
                   isEditMode, savePending, saveRefreshing, deletePending,
                   deleteRefreshing>>

handleFieldChange(field, value) ==
    /\ EditorStep
    /\ fmCurrentMember' = [fmCurrentMember EXCEPT ![field] = value]
    /\ remoteCall' = NoCall
    /\ UNCHANGED <<fmFamilyMembers, showModal, fmIsLoading, isSaving,
                   fmErrorMessage, isEditMode, savePending, saveRefreshing,
                   deletePending, deleteRefreshing>>

\* Mutant of SaveValid: the relationship is not validated.
SaveValid_NoRelationship ==
    /\ Truthy(fmCurrentMember.firstName)
    /\ Truthy(fmCurrentMember.lastName)

\* The validation at the top of handleSaveMember.
SaveValid ==
    /\ Truthy(fmCurrentMember.firstName)
    /\ Truthy(fmCurrentMember.lastName)
    /\ Truthy(fmCurrentMember.relationship)

\* Mutant of handleSaveMember: the modal is closed as soon as the mutation
\* is sent.
handleSaveMember_ClosesAtOnce ==
    /\ EditorStep
    /\ IF ~SaveValid
       THEN /\ remoteCall' = NoCall
            /\ UNCHANGED <<isSaving, savePending, showModal>>
       ELSE /\ EditorInFlight < MaxInFlight
            /\ isSaving' = TRUE
            /\ remoteCall' =
                 Call(IF isEditMode THEN "updateFamilyMember"
                      ELSE "createFamilyMember", fmCurrentMember)
            /\ savePending' = savePending + 1
            /\ showModal' = FALSE
    /\ UNCHANGED <<fmFamilyMembers, fmIsLoading, fmErrorMessage,
                   fmCurrentMember, isEditMode, saveRefreshing, deletePending,
                   deleteRefreshing>>

\* handleSaveMember up to its await.
handleSaveMember ==
    /\ EditorStep
    /\ IF ~SaveValid
       THEN /\ remoteCall' = NoCall
            /\ UNCHANGED <<isSaving, savePending>>
       ELSE /\ EditorInFlight < MaxInFlight
            /\ isSaving' = TRUE
            /\ remoteCall' =
                 Call(IF isEditMode THEN "updateFamilyMember"
                      ELSE "createFamilyMember", fmCurrentMember)
            /\ savePending' = savePending + 1
    /\ UNCHANGED <<fmFamilyMembers, showModal, fmIsLoading, fmErrorMessage,
                   fmCurrentMember, isEditMode, saveRefreshing, deletePending,
                   deleteRefreshing>>

\* create/updateFamilyMember resolved: the handler calls refreshApex and
\* awaits it.
SaveResolved ==
    /\ EditorStep
    /\ savePending > 0
    /\ savePending' = savePending - 1
    /\ saveRefreshing' = saveRefreshing + 1
    /\ remoteCall' = Call("refreshApex", "wiredFamilyMembersResult")
    /\ UNCHANGED <<fmFamilyMembers, showModal, fmIsLoading, isSaving,
                   fmErrorMessage, fmCurrentMember, isEditMode, deletePending,
                   deleteRefreshing>>

\* Mutant of SaveRejected: handleCloseModal() is called in the finally block,
\* so a rejection closes the modal too.
SaveRejected_Closes ==
    /\ EditorStep
    /\ savePending > 0
    /\ savePending' = savePending - 1
    /\ isSaving' = FALSE
    /\ showModal' = FALSE
    /\ fmCurrentMember' = fmGetEmptyMember
    /\ isEditMode' = FALSE
    /\ remoteCall' = NoCall
    /\ UNCHANGED <<fmFamilyMembers, fmIsLoading, fmErrorMessage,
                   saveRefreshing, deletePending, deleteRefreshing>>

\* create/updateFamilyMember rejected: catch, then finally.
SaveRejected ==
    /\ EditorStep
    /\ savePending > 0
    /\ savePending' = savePending - 1
    /\ isSaving' = FALSE
    /\ remoteCall' = NoCall
    /\ UNCHANGED <<fmFamilyMembers, showModal, fmIsLoading, fmErrorMessage,
                   fmCurrentMember, isEditMode, saveRefreshing, deletePending,
                   deleteRefreshing>>

\* The state handleCloseModal leaves in showModal, currentMember, isEditMode.
handleCloseModalEffect ==
    /\ showModal' = FALSE
    /\ fmCurrentMember' = fmGetEmptyMember
    /\ isEditMode' = FALSE

\* The refreshApex promise of handleSaveMember resolved: handleCloseModal(),
\* then finally.
SaveRefreshResolved ==
    /\ EditorStep
    /\ saveRefreshing > 0
    /\ saveRefreshing' = saveRefreshing - 1
    /\ handleCloseModalEffect
    /\ isSaving' = FALSE
    /\ remoteCall' = NoCall
    /\ UNCHANGED <<fmFamilyMembers, fmIsLoading, fmErrorMessage, savePending,
                   deletePending, deleteRefreshing>>

\* The refreshApex promise of handleSaveMember rejected: catch, then finally.
SaveRefreshRejected ==
    /\ EditorStep
    /\ saveRefreshing > 0
    /\ saveRefreshing' = saveRefreshing - 1
    /\ isSaving' = FALSE
    /\ remoteCall' = NoCall
    /\ UNCHANGED <<fmFamilyMembers, showModal, fmIsLoading, fmErrorMessage,
                   fmCurrentMember, isEditMode, savePending, deletePending,
                   deleteRefreshing>>

\* The modal's cancel button.
handleCloseModal ==
    /\ EditorStep
    /\ handleCloseModalEffect
    /\ remoteCall' = NoCall
    /\ UNCHANGED <<fmFamilyMembers, fmIsLoading, isSaving, fmErrorMessage,
                   savePending, saveRefreshing, deletePending,
                   deleteRefreshing>>

\* ========================================================================
\* accountOverview.js
\* ========================================================================
recordId == "acc1"
WireError == [message |-> "error"]

\* enrichContactData(data): per-contact presentation fields.
enrichContact(contact) ==
    [contactId |-> contact.contactId,
     recordType |-> contact.recordType,
     trainingCompleted |-> contact.trainingCompleted,
     homeStudyCompleted |-> contact.homeStudyCompleted,
     contactLink |-> <<"/", contact.contactId>>,
     iconName |-> IF contact.recordType = "Primary Contact"
                  THEN "standard:avatar" ELSE "standard:contact",
     trainingIcon |-> IF contact.trainingCompleted
                      THEN "utility:check" ELSE "utility:close",
     homeStudyIcon |-> IF contact.homeStudyCompleted
                       THEN "utility:check" ELSE "utility:close"]
enrichContactData(data) ==
    [primaryCaseworkerId |-> data.primaryCaseworkerId,
     contacts |-> [i \in 1..Len(data.contacts) |-> enrichContact(data.contacts[i])]]

\* The projections getAccountOverview can deliver.
OverviewData ==
    {[primaryCaseworkerId |-> Null,
      contacts |-> <<[contactId |-> "c1", recordType |-> "Primary Contact",
                      trainingCompleted |-> TRUE, homeStudyCompleted |-> FALSE]>>],
     [primaryCaseworkerId |-> "cw1",
      contacts |-> <<[contactId |-> "c2", recordType |-> "Family Member",
                      trainingCompleted |-> FALSE, homeStudyCompleted |-> TRUE]>>]}

\* The lists getAvailableCaseworkers can resolve to.
CaseworkerIds == {"cw1", "cw2"}
Candidate(id) == [id |-> id, availabilityStatus |-> "Available"]
CandidateLists == {<<>>, <<Candidate("cw1")>>, <<Candidate("cw1"), Candidate("cw2")>>}

OverviewStep ==
    /\ component = "overview"
    /\ UNCHANGED <<component, wizardVars, editorVars>>

OverviewInit ==
    /\ accountOverview = UndefinedObject
    /\ aoIsLoading = TRUE
    /\ error = UndefinedObject
    /\ showCaseworkerModal = FALSE
    /\ availableCaseworkers = <<>>
    /\ selectedCaseworkerId = Undefined
    /\ isLoadingCaseworkers = FALSE
    /\ isSavingCaseworker = FALSE
    /\ loadPending = 0
    /\ assignPending = 0
    /\ assignRefreshing = 0

\* Unsettled promises of the overview.
OverviewInFlight == loadPending + assignPending + assignRefreshing

\* Mutant of wiredAccountOverview: a data delivery keeps the earlier error.
wiredAccountOverview_KeepError(kind, data) ==
    /\ OverviewStep
    /\ IF kind = "data"
       THEN /\ accountOverview' = enrichContactData(data)
            /\ aoIsLoading' = FALSE
            /\ UNCHANGED error
       ELSE IF kind = "error"
       THEN /\ error' = WireError
            /\ accountOverview' = UndefinedObject
            /\ aoIsLoading' = FALSE
       ELSE /\ aoIsLoading' = TRUE
            /\ UNCHANGED <<accountOverview, error>>
    /\ remoteCall' = NoCall
    /\ UNCHANGED <<showCaseworkerModal, availableCaseworkers,
                   selectedCaseworkerId, isLoadingCaseworkers,
                   isSavingCaseworker, loadPending, assignPending,
                   assignRefreshing>>

\* A delivery of the getAccountOverview wire: kind is "data", "error" or
\* "none" (neither property set).
wiredAccountOverview(kind, data) ==
    /\ OverviewStep
    /\ IF kind = "data"
       THEN /\ accountOverview' = enrichContactData(data)
            /\ aoIsLoading' = FALSE
            /\ error' = UndefinedObject
       ELSE IF kind = "error"
       THEN /\ error' = WireError
            /\ accountOverview' = UndefinedObject
            /\ aoIsLoading' = FALSE
       ELSE /\ aoIsLoading' = TRUE
            /\ UNCHANGED <<accountOverview, error>>
    /\ remoteCall' = NoCall
    /\ UNCHANGED <<showCaseworkerModal, availableCaseworkers,
                   selectedCaseworkerId, isLoadingCaseworkers,
                   isSavingCaseworker, loadPending, assignPending,
                   assignRefreshing>>

\* handleAssignCaseworker up to its await.
handleAssignCaseworker ==
    /\ OverviewStep
    /\ OverviewInFlight < MaxInFlight
    /\ showCaseworkerModal' = TRUE
    /\ isLoadingCaseworkers' = TRUE
    /\ remoteCall' = Call("getAvailableCaseworkers", <<>>)
    /\ loadPending' = loadPending + 1
    /\ UNCHANGED <<accountOverview, aoIsLoading, error, availableCaseworkers,
                   selectedCaseworkerId, isSavingCaseworker, assignPending,
                   assignRefreshing>>

\* this.accountOverview?.primaryCaseworkerId
CurrentCaseworkerId ==
    IF accountOverview = UndefinedObject THEN Undefined
    ELSE accountOverview.primaryCaseworkerId

\* getAvailableCaseworkers resolved with result: the rest of the try block,
\* then finally.
LoadResolved(result) ==
    /\ OverviewStep
    /\ loadPending > 0
    /\ loadPending' = loadPending - 1
    /\ availableCaseworkers' = result
    /\ selectedCaseworkerId' = IF Truthy(CurrentCaseworkerId)
                               THEN CurrentCaseworkerId
                               ELSE selectedCaseworkerId
    /\ isLoadingCaseworkers' = FALSE
    /\ remoteCall' = NoCall
    /\ UNCHANGED <<accountOverview, aoIsLoading, error, showCaseworkerModal,
                   isSavingCaseworker, assignPending, assignRefreshing>>

\* getAvailableCaseworkers rejected: catch, then finally.
LoadRejected ==
    /\ OverviewStep
    /\ loadPending > 0
    /\ loadPending' = loadPending - 1
    /\ isLoadingCaseworkers' = FALSE
    /\ remoteCall' = NoCall
    /\ UNCHANGED <<accountOverview, aoIsLoading, error, showCaseworkerModal,
                   availableCaseworkers, selectedCaseworkerId,
                   isSavingCaseworker, assignPending, assignRefreshing>>

handleCaseworkerSelection(value) ==
    /\ OverviewStep
    /\ selectedCaseworkerId' = value
    /\ remoteCall' = NoCall
    /\ UNCHANGED <<accountOverview, aoIsLoading, error, showCaseworkerModal,
                   availableCaseworkers, isLoadingCaseworkers,
                   isSavingCaseworker, loadPending, assignPending,
                   assignRefreshing>>

\* The state handleCloseCaseworkerModal leaves in the three fields it writes.
handleCloseCaseworkerModalEffect ==
    /\ showCaseworkerModal' = FALSE
    /\ selectedCaseworkerId' = Null
    /\ availableCaseworkers' = <<>>

\* The modal's cancel button.
handleCloseCaseworkerModal ==
    /\ OverviewStep
    /\ handleCloseCaseworkerModalEffect
    /\ remoteCall' = NoCall
    /\ UNCHANGED <<accountOverview, aoIsLoading, error, isLoadingCaseworkers,
                   isSavingCaseworker, loadPending, assignPending,
                   assignRefreshing>>

\* Mutant of handleSaveCaseworker: the selection is not checked.
handleSaveCaseworker_NoGuard ==
    /\ OverviewStep
    /\ OverviewInFlight < MaxInFlight
    /\ isSavingCaseworker' = TRUE
    /\ remoteCall' =
         Call("assignCaseworkerToAccount",
              [accountId |-> recordId,
               caseworkerId |-> selectedCaseworkerId])
    /\ assignPending' = assignPending + 1
    /\ UNCHANGED <<accountOverview, aoIsLoading, error, showCaseworkerModal,
                   availableCaseworkers, selectedCaseworkerId,
                   isLoadingCaseworkers, loadPending, assignRefreshing>>

\* handleSaveCaseworker up to its await.
handleSaveCaseworker ==
    /\ OverviewStep
    /\ IF ~Truthy(selectedCaseworkerId)
       THEN /\ remoteCall' = NoCall
            /\ UNCHANGED <<isSavingCaseworker, assignPending>>
       ELSE /\ OverviewInFlight < MaxInFlight
            /\ isSavingCaseworker' = TRUE
            /\ remoteCall' =
                 Call("assignCaseworkerToAccount",
                      [accountId |-> recordId,
                       caseworkerId |-> selectedCaseworkerId])
            /\ assignPending' = assignPending + 1
    /\ UNCHANGED <<accountOverview, aoIsLoading, error, showCaseworkerModal,
                   availableCaseworkers, selectedCaseworkerId,
                   isLoadingCaseworkers, loadPending, assignRefreshing>>

\* assignCaseworkerToAccount resolved: the handler calls refreshApex and
\* awaits it.
AssignResolved ==
    /\ OverviewStep
    /\ assignPending > 0
    /\ assignPending' = assignPending - 1
    /\ assignRefreshing' = assignRefreshing + 1
    /\ remoteCall' = Call("refreshApex", "wiredAccountOverviewResult")
    /\ UNCHANGED <<accountOverview, aoIsLoading, error, showCaseworkerModal,
                   availableCaseworkers, selectedCaseworkerId,
                   isLoadingCaseworkers, isSavingCaseworker, loadPending>>

\* assignCaseworkerToAccount rejected: catch, then finally.
AssignRejected ==
    /\ OverviewStep
    /\ assignPending > 0
    /\ assignPending' = assignPending - 1
    /\ isSavingCaseworker' = FALSE
    /\ remoteCall' = NoCall
    /\ UNCHANGED <<accountOverview, aoIsLoading, error, showCaseworkerModal,
                   availableCaseworkers, selectedCaseworkerId,
                   isLoadingCaseworkers, loadPending, assignRefreshing>>

\* The refreshApex promise of handleSaveCaseworker resolved:
\* handleCloseCaseworkerModal(), then finally.
AssignRefreshResolved ==
    /\ OverviewStep
    /\ assignRefreshing > 0
    /\ assignRefreshing' = assignRefreshing - 1
    /\ handleCloseCaseworkerModalEffect
    /\ isSavingCaseworker' = FALSE
    /\ remoteCall' = NoCall
    /\ UNCHANGED <<accountOverview, aoIsLoading, error, isLoadingCaseworkers,
                   loadPending, assignPending>>

\* The refreshApex promise of handleSaveCaseworker rejected: catch, then
\* finally.
AssignRefreshRejected ==
    /\ OverviewStep
    /\ assignRefreshing > 0
    /\ assignRefreshing' = assignRefreshing - 1
    /\ isSavingCaseworker' = FALSE
    /\ remoteCall' = NoCall
    /\ UNCHANGED <<accountOverview, aoIsLoading, error, showCaseworkerModal,
                   availableCaseworkers, selectedCaseworkerId,
                   isLoadingCaseworkers, loadPending, assignPending>>

\* ========================================================================
\* The system
\* ========================================================================
Components == {"wizard", "editor", "overview"}

\* The state after the construction of a component of class c.
Constructed(c) ==
    /\ component = c
    /\ remoteCall = NoCall
    /\ WizardInit
    /\ EditorInit
    /\ OverviewInit

Init == \E c \in Components : Constructed(c)

\* The events and continuations of a fosterApplicationForm instance.
WizardNext ==
    \/ \E field \in ApplicantFields :
         \E value \in ApplicantValues(field) :
            handlePrimaryFieldChange(field, value)
    \/ \E field \in MemberFields :
         \E value \in MemberValues(field) :
            handleMemberFieldChange(field, value)
    \/ \E value \in HouseholdValues :
         handleHouseholdFieldChange("homeType", value)
    \/ \E now \in ClockReadings : handleAddFamilyMember(now)
    \/ \E index \in 0..MaxMembers : handleRemoveMember(index)
    \/ handleNext
    \/ handlePrevious
    \/ handleFinalSubmit
    \/ SubmitResolved
    \/ SubmitRejected
    \/ handleNewApplication

\* The events and continuations of a familyMemberManagement instance.
EditorNext ==
    \/ \E data \in ServerLists : wiredFamilyMembers("data", data)
    \/ wiredFamilyMembers("error", <<>>)
    \/ wiredFamilyMembers("none", <<>>)
    \/ handleAddMember
    \/ \E memberId \in MemberIds : handleEditMember(memberId)
    \/ \E memberId \in MemberIds :
         \E confirmed \in BOOLEAN : handleDeleteMember(memberId, confirmed)
    \/ DeleteResolved
    \/ DeleteRejected
    \/ DeleteRefreshSettled
    \/ \E field \in FmFields :
         \E value \in FmValues(field) : handleFieldChange(field, value)
    \/ handleSaveMember
    \/ SaveResolved
    \/ SaveRejected
    \/ SaveRefreshResolved
    \/ SaveRefreshRejected
    \/ handleCloseModal

\* The events and continuations of an accountOverview instance.
OverviewNext ==
    \/ \E data \in OverviewData : wiredAccountOverview("data", data)
    \/ wiredAccountOverview("error", UndefinedObject)
    \/ wiredAccountOverview("none", UndefinedObject)
    \/ handleAssignCaseworker
    \/ \E result \in CandidateLists : LoadResolved(result)
    \/ LoadRejected
    \/ \E value \in CaseworkerIds : handleCaseworkerSelection(value)
    \/ handleCloseCaseworkerModal
    \/ handleSaveCaseworker
    \/ AssignResolved
    \/ AssignRejected
    \/ AssignRefreshResolved
    \/ AssignRefreshRejected

Next == WizardNext \/ EditorNext \/ OverviewNext

WizardSpec == Constructed("wizard") /\ [][WizardNext]_vars
EditorSpec == Constructed("editor") /\ [][EditorNext]_vars
OverviewSpec == Constructed("overview") /\ [][OverviewNext]_vars
Spec == Init /\ [][Next]_vars

\* The two components with a modal workflow, either of them constructed.
ModalNext == EditorNext \/ OverviewNext
ModalSpec ==
    /\ Constructed("editor") \/ Constructed("overview")
    /\ [][ModalNext]_vars

\* The wizard's local editing: every event of a fosterApplicationForm
\* instance except the submit, whose handler and continuations are the only
\* steps that call Apex.
DraftNext ==
    \/ \E field \in ApplicantFields :
         \E value \in ApplicantValues(field) :
            handlePrimaryFieldChange(field, value)
    \/ \E field \in MemberFields :
         \E value \in MemberValues(field) :
            handleMemberFieldChange(field, value)
    \/ \E value \in HouseholdValues :
         handleHouseholdFieldChange("homeType", value)
    \/ \E now \in ClockReadings : handleAddFamilyMember(now)
    \/ \E index \in 0..MaxMembers : handleRemoveMember(index)
    \/ handleNext
    \/ handlePrevious
    \/ handleNewApplication
DraftSpec == Constructed("wizard") /\ [][DraftNext]_vars

\* The steps of the five remote workflows and what interferes with them:
\* the handlers that start a call, the continuations, the subscription
\* deliveries (they write the loading flags), and the edits of the editor's
\* draft and of the overview's selection, on which it depends whether a save
\* or an assignment issues its call.  Left out are the steps that neither
\* read nor write a busy flag or an in-flight counter: the wizard's field
\* edits, navigation, list edits and reset, and the editor's open-add,
\* open-edit and cancel (the draft values they produce matter to a save only
\* through the three validated fields, which handleFieldChange sets freely).
\* The delivered member list is read by open-edit only, so the data
\* deliveries here all carry the empty list.
RemoteNext ==
    \/ handleFinalSubmit
    \/ SubmitResolved
    \/ SubmitRejected
    \/ \E data \in {<<>>} : wiredFamilyMembers("data", data)
    \/ wiredFamilyMembers("error", <<>>)
    \/ wiredFamilyMembers("none", <<>>)
    \/ \E memberId \in MemberIds :
         \E confirmed \in BOOLEAN : handleDeleteMember(memberId, confirmed)
    \/ DeleteResolved
    \/ DeleteRejected
    \/ DeleteRefreshSettled
    \/ \E field \in FmFields :
         \E value \in FmValues(field) : handleFieldChange(field, value)
    \/ handleSaveMember
    \/ SaveResolved
    \/ SaveRejected
    \/ SaveRefreshResolved
    \/ SaveRefreshRejected
    \/ \E data \in OverviewData : wiredAccountOverview("data", data)
    \/ wiredAccountOverview("error", UndefinedObject)
    \/ wiredAccountOverview("none", UndefinedObject)
    \/ handleAssignCaseworker
    \/ \E result \in CandidateLists : LoadResolved(result)
    \/ LoadRejected
    \/ \E value \in CaseworkerIds : handleCaseworkerSelection(value)
    \/ handleCloseCaseworkerModal
    \/ handleSaveCaseworker
    \/ AssignResolved
    \/ AssignRejected
    \/ AssignRefreshResolved
    \/ AssignRefreshRejected

\* Every remote call eventually resolves or rejects: each continuation that
\* waits on a promise eventually runs.
Settles ==
    /\ WF_vars(SubmitResolved \/ SubmitRejected)
    /\ WF_vars(SaveResolved \/ SaveRejected)
    /\ WF_vars(SaveRefreshResolved \/ SaveRefreshRejected)
    /\ WF_vars(DeleteResolved \/ DeleteRejected)
    /\ WF_vars(DeleteRefreshSettled)
    /\ WF_vars((\E result \in CandidateLists : LoadResolved(result)) \/ LoadRejected)
    /\ WF_vars(AssignResolved \/ AssignRejected)
    /\ WF_vars(AssignRefreshResolved \/ AssignRefreshRejected)

FairSpec == Init /\ [][RemoteNext]_vars /\ Settles

\* ========================================================================
\* Properties
\* ========================================================================
\* All five required applicant fields are non-empty.
AllRequiredFilled == \A f \in ApplicantFields : primaryApplicant[f] # ""

\* C1: Next at step1 with the five required applicant fields non-empty moves
\* the step cursor to step4 when the role is "Caseworker" and to step2 for
\* every other role; Next at step2 gives step3 and Next at step3 gives step4.
C1_NextTransitions ==
    [][handleNext =>
         /\ (currentStep = "step1" /\ AllRequiredFilled) =>
               currentStep' =
                  IF primaryApplicant.applicationType = "Caseworker"
                  THEN "step4" ELSE "step2"
         /\ currentStep = "step2" => currentStep' = "step3"
         /\ currentStep = "step3" => currentStep' = "step4"]_vars

\* A caseworker with every required field filled stands on step4, which only
\* the skipping Next from step1 reaches.
C1_Witness ==
    /\ currentStep = "step4"
    /\ primaryApplicant.applicationType = "Caseworker"
    /\ AllRequiredFilled

\* C2: Previous at step4 moves the step cursor to step1 when the role is
\* "Caseworker" and to step3 otherwise; Previous at step3 gives step2 and
\* Previous at step2 gives step1.
C2_PreviousTransitions ==
    [][handlePrevious =>
         /\ currentStep = "step4" =>
               currentStep' =
                  IF primaryApplicant.applicationType = "Caseworker"
                  THEN "step1" ELSE "step3"
         /\ currentStep = "step3" => currentStep' = "step2"
         /\ currentStep = "step2" => currentStep' = "step1"]_vars

\* Where a caseworker's Previous from the review step leads: step1 with the
\* required fields filled, the error cleared, and the submit that was started
\* on the review step still in flight.
C2_Witness ==
    /\ currentStep = "step1"
    /\ primaryApplicant.applicationType = "Caseworker"
    /\ AllRequiredFilled
    /\ errorMessage = ""
    /\ submitPending > 0
    /\ remoteCall.op = "none"

\* C3: the payload of every submitApplication call has familyMembers = []
\* and householdInfo = {} when the role at submit time is "Caseworker"
\* (whatever the local list and household draft hold), and otherwise carries
\* exactly the local member list, in order, and the household draft.
C3_SubmitPayload ==
    remoteCall.op = "submitApplication" =>
        /\ remoteCall.arg.primaryApplicant = primaryApplicant
        /\ IF primaryApplicant.applicationType = "Caseworker"
           THEN /\ remoteCall.arg.familyMembers = <<>>
                /\ remoteCall.arg.householdInfo = EmptyObject
           ELSE /\ remoteCall.arg.familyMembers = familyMembers
                /\ remoteCall.arg.householdInfo = householdInfo

\* A caseworker submits while the local list and the household draft, filled
\* in earlier under another role, are not empty.
C3_Witness ==
    /\ remoteCall.op = "submitApplication"
    /\ primaryApplicant.applicationType = "Caseworker"
    /\ Len(familyMembers) > 0
    /\ householdInfo.homeType # ""

\* C4: at most one submitApplication call is in flight at any time (a submit
\* action fired while an earlier one is unsettled issues no second call).
C4_OneSubmitInFlight == submitPending <= 1

\* C5: at most one save or delete mutation of the editor is in flight at any
\* time, and while one is in flight the busy flag its handler set stays set.
C5_OneMutationInFlight ==
    /\ savePending + deletePending <= 1
    /\ savePending > 0 => isSaving
    /\ deletePending > 0 => fmIsLoading

\* The draft has firstName, lastName and relationship non-empty.
DraftComplete ==
    /\ fmCurrentMember.firstName # ""
    /\ fmCurrentMember.lastName # ""
    /\ fmCurrentMember.relationship # ""

\* C6: a save with firstName, lastName or relationship empty in the draft
\* issues no remote call and leaves the modal flag, the draft, the edit-mode
\* flag and the busy flags unchanged.
C6_InvalidSaveIsLocal ==
    [][(~DraftComplete /\ handleSaveMember) =>
         /\ remoteCall'.op = "none"
         /\ UNCHANGED <<showModal, fmCurrentMember, isEditMode, isSaving,
                        fmIsLoading, savePending>>]_vars

\* The modal is open on a draft that lacks only its relationship, and the
\* latest step (a save or not) issued no call.
C6_Witness ==
    /\ showModal
    /\ fmCurrentMember.firstName # ""
    /\ fmCurrentMember.lastName # ""
    /\ fmCurrentMember.relationship = ""
    /\ remoteCall.op = "none"
    /\ savePending = 0
    /\ ~isSaving

\* C7: no open-add, open-edit, field-edit or cancel event changes the items
\* collection; the collection changes only by being replaced wholesale on a
\* data delivery of the subscription.
C7_ItemsOnlyReplaced ==
    [][fmFamilyMembers' # fmFamilyMembers =>
         /\ ~ \/ handleAddMember
              \/ \E memberId \in MemberIds : handleEditMember(memberId)
              \/ \E field \in FmFields :
                   \E value \in FmValues(field) : handleFieldChange(field, value)
              \/ handleCloseModal
         /\ \E data \in ServerLists : wiredFamilyMembers("data", data)]_vars

\* The edit modal is open on item m1 and the draft's first name has been
\* patched away from the item's, which is still in the collection.
C7_Witness ==
    /\ showModal
    /\ isEditMode
    /\ fmCurrentMember.id = "m1"
    /\ \E i \in 1..Len(fmFamilyMembers) :
          /\ fmFamilyMembers[i].id = "m1"
          /\ fmFamilyMembers[i].firstName # fmCurrentMember.firstName

ViewModelSet == accountOverview # UndefinedObject
ErrorSet == error # UndefinedObject

\* C8: the view-model and the error are never both set; a data delivery
\* leaves the view-model set and the error cleared, an error delivery leaves
\* the error set and the view-model cleared.
C8_ViewModelXorError ==
    /\ ~(ViewModelSet /\ ErrorSet)
    /\ [][/\ ~(ViewModelSet' /\ ErrorSet')
          /\ (\E data \in OverviewData : wiredAccountOverview("data", data))
                => (ViewModelSet' /\ ~ErrorSet')
          /\ wiredAccountOverview("error", UndefinedObject)
                => (ErrorSet' /\ ~ViewModelSet')]_vars

\* A view-model is published while a delivery with neither data nor error
\* has since set the loading flag again.
C8_Witness ==
    /\ ViewModelSet
    /\ ~ErrorSet
    /\ aoIsLoading

\* C9: while the assignment workflow is closed the candidate list is empty,
\* also when a candidate fetch started before the close resolves after it.
C9_ClosedHasNoCandidates ==
    ~showCaseworkerModal => availableCaseworkers = <<>>

\* C10: starting a remote workflow sets its busy flag, and, every remote call
\* eventually settling, the flag of a workflow with a call in flight
\* eventually is false again, on the success and on the failure path.
C10_BusyFlagsClear ==
    /\ [][/\ (handleFinalSubmit => isSubmitting')
          /\ ((handleSaveMember /\ DraftComplete) => isSaving')
          /\ ((\E memberId \in MemberIds : handleDeleteMember(memberId, TRUE))
                 => fmIsLoading')
          /\ (handleAssignCaseworker => isLoadingCaseworkers')
          /\ ((handleSaveCaseworker /\ selectedCaseworkerId \in CaseworkerIds)
                 => isSavingCaseworker')
          /\ ((SubmitResolved \/ SubmitRejected) => ~isSubmitting')
          /\ ((SaveRejected \/ SaveRefreshResolved \/ SaveRefreshRejected)
                 => ~isSaving')
          /\ ((DeleteRejected \/ DeleteRefreshSettled) => ~fmIsLoading')
          /\ (((\E result \in CandidateLists : LoadResolved(result))
                 \/ LoadRejected) => ~isLoadingCaseworkers')
          /\ ((AssignRejected \/ AssignRefreshResolved \/ AssignRefreshRejected)
                 => ~isSavingCaseworker')]_vars
    /\ (submitPending > 0) ~> ~isSubmitting
    /\ (savePending + saveRefreshing > 0) ~> ~isSaving
    /\ (deletePending + deleteRefreshing > 0) ~> ~fmIsLoading
    /\ (loadPending > 0) ~> ~isLoadingCaseworkers
    /\ (assignPending + assignRefreshing > 0) ~> ~isSavingCaseworker

\* A delete is in flight with the loading flag set.
C10_Witness ==
    /\ deletePending > 0
    /\ fmIsLoading

\* The wizard's drafts: applicant, household, member buffer and member list.
wizardDrafts == <<primaryApplicant, householdInfo, currentMember, familyMembers>>

\* C11: when submitApplication succeeds the submitted flag becomes true; when
\* it fails the submitted flag keeps its value, a non-empty error message is
\* set, the step cursor and all drafts are unchanged, the busy flag is
\* cleared, and a further submit is possible and issues a new remote call.
C11_SubmitOutcome ==
    [][/\ (submitPending' < submitPending /\ SubmitResolved) => showSuccess'
       /\ (submitPending' < submitPending /\ SubmitRejected) =>
             /\ showSuccess' = showSuccess
             /\ errorMessage' # ""
             /\ UNCHANGED <<currentStep, wizardDrafts>>
             /\ ~isSubmitting'
             /\ remoteCall'.op = "none"
       /\ (errorMessage = SubmitErrorMsg /\ submitPending < MaxInFlight) =>
             ENABLED handleFinalSubmit
       /\ (errorMessage = SubmitErrorMsg /\ handleFinalSubmit) =>
             remoteCall'.op = "submitApplication"]_vars

\* A foster parent on the review step after a failed submit: the error is
\* shown, nothing is submitted, no call is in flight and the flag is clear.
C11_Witness ==
    /\ currentStep = "step4"
    /\ primaryApplicant.applicationType = "Foster Parent"
    /\ AllRequiredFilled
    /\ errorMessage = SubmitErrorMsg
    /\ ~showSuccess
    /\ ~isSubmitting
    /\ submitPending = 0

\* C12: an applicant field edit that sets the role to a value different from
\* the stored one leaves the step cursor at step1, from whichever step; an
\* edit of another applicant field, or of the role to its current value,
\* leaves the step cursor unchanged.
C12_RoleChangeResetsStep ==
    [][\A field \in ApplicantFields :
         \A value \in ApplicantValues(field) :
            \/ currentStep' = IF field = "applicationType"
                                 /\ value # primaryApplicant.applicationType
                              THEN "step1"
                              ELSE currentStep
            \/ primaryApplicant' # [primaryApplicant EXCEPT ![field] = value]
            \/ ~handlePrimaryFieldChange(field, value)]_vars

\* A caseworker stands on step1 with a member in the local list and a
\* household draft, both filled in under another role on steps 2 and 3.
C12_Witness ==
    /\ currentStep = "step1"
    /\ primaryApplicant.applicationType = "Caseworker"
    /\ AllRequiredFilled
    /\ Len(familyMembers) > 0
    /\ householdInfo.homeType # ""
    /\ remoteCall.op = "none"

\* C13: Next at step1 with any of the five required applicant fields empty
\* is blocked: the step cursor stays step1, a non-empty error message is set,
\* all drafts are unchanged and no remote call is issued.
C13_InvalidNextBlocked ==
    [][(currentStep = "step1" /\ ~AllRequiredFilled /\ handleNext) =>
          /\ currentStep' = "step1"
          /\ errorMessage' # ""
          /\ UNCHANGED wizardDrafts
          /\ remoteCall'.op = "none"
          /\ submitPending' = submitPending]_vars

\* Step1 shows the validation error while only the phone is missing.
C13_Witness ==
    /\ currentStep = "step1"
    /\ errorMessage = RequiredMsg
    /\ primaryApplicant.phone = ""
    /\ \A f \in ApplicantFields \ {"phone"} : primaryApplicant[f] # ""

\* The member draft buffer carries a first and a last name.
MemberNamed ==
    Truthy(currentMember.firstName) /\ Truthy(currentMember.lastName)

\* C14: add-member with first and last name in the draft buffer appends one
\* copy of the draft at the end of the local list, leaving the earlier items
\* and their order as they were, and resets the draft buffer to the empty
\* member; without a first or a last name the list and the draft buffer are
\* unchanged. No remote call is issued in either case.
C14_AddAppendsDraftCopy ==
    [][\/ /\ IF MemberNamed
             THEN /\ Len(familyMembers') = Len(familyMembers) + 1
                  /\ SubSeq(familyMembers', 1, Len(familyMembers))
                       = familyMembers
                  /\ \A f \in MemberFields :
                       familyMembers'[Len(familyMembers')][f]
                         = currentMember[f]
                  /\ currentMember' = [firstName |-> "", lastName |-> ""]
             ELSE UNCHANGED <<familyMembers, currentMember>>
          /\ remoteCall'.op = "none"
          /\ submitPending' = submitPending
       \/ ~\E now \in ClockReadings : handleAddFamilyMember(now)]_vars

\* Two members were added one after the other at different clock readings
\* and the draft buffer is empty again.
C14_Witness ==
    /\ Len(familyMembers) = 2
    /\ familyMembers[1].tempId < familyMembers[2].tempId
    /\ familyMembers[1].firstName = "A"
    /\ currentMember = getEmptyMember
    /\ remoteCall.op = "none"

\* C15: any two members of the local list have different temporary
\* identifiers.
C15_TempIdsDistinct ==
    \A i, j \in 1..Len(familyMembers) :
       i # j => familyMembers[i].tempId # familyMembers[j].tempId

\* C16: 'New application' leaves the step cursor at step1, the submitted flag
\* false, the error message empty, the member list empty and the applicant,
\* household and member drafts at their initial empty values; the busy flag
\* keeps its value.
C16_NewApplicationResets ==
    [][handleNewApplication =>
          /\ currentStep' = "step1"
          /\ showSuccess' = FALSE
          /\ errorMessage' = ""
          /\ familyMembers' = <<>>
          /\ primaryApplicant' =
               [firstName |-> "", lastName |-> "", email |-> "",
                phone |-> "", applicationType |-> ""]
          /\ householdInfo' = [homeType |-> ""]
          /\ currentMember' = [firstName |-> "", lastName |-> ""]
          /\ isSubmitting' = isSubmitting
          /\ remoteCall'.op = "none"]_vars

\* The wizard is as constructed except for one submit still in flight: the
\* state 'New application' leaves when it is pressed during a submit.
C16_Witness ==
    /\ currentStep = "step1"
    /\ ~showSuccess
    /\ errorMessage = ""
    /\ familyMembers = <<>>
    /\ primaryApplicant = EmptyApplicant
    /\ householdInfo = EmptyHousehold
    /\ currentMember = getEmptyMember
    /\ isSubmitting
    /\ submitPending = 1
    /\ remoteCall.op = "none"

C18_DeleteNeedsConfirm ==
    [][/\ remoteCall'.op = "deleteFamilyMember" =>
             \E memberId \in MemberIds :
                /\ handleDeleteMember(memberId, TRUE)
                /\ remoteCall'.arg = memberId
                /\ deletePending' = deletePending + 1
       /\ handleDeleteMember(CHOOSE memberId \in MemberIds : TRUE, FALSE) =>
             /\ remoteCall'.op = "none"
             /\ UNCHANGED editorVars
       /\ (deletePending' < deletePending /\ DeleteResolved) =>
             remoteCall' = [op |-> "refreshApex",
                            arg |-> "wiredFamilyMembersResult"]]_vars

\* A confirmed delete has succeeded and its re-pull has just been requested,
\* the list still showing the two items delivered before.
C18_Witness ==
    /\ remoteCall.op = "refreshApex"
    /\ deleteRefreshing = 1
    /\ saveRefreshing = 0
    /\ fmIsLoading
    /\ Len(fmFamilyMembers) = 2

C20_FailureKeepsModal ==
    [][/\ AssignRejected =>
             /\ UNCHANGED <<showCaseworkerModal, selectedCaseworkerId,
                            availableCaseworkers>>
             /\ ~isSavingCaseworker'
             /\ remoteCall'.op = "none"
             /\ assignPending' < assignPending
             /\ UNCHANGED assignRefreshing
       /\ SaveRejected =>
             /\ UNCHANGED <<showModal, fmCurrentMember, isEditMode>>
             /\ ~isSaving'
             /\ remoteCall'.op = "none"
             /\ savePending' < savePending
             /\ UNCHANGED saveRefreshing
       /\ (component = "overview" /\ Truthy(selectedCaseworkerId)
           /\ OverviewInFlight < MaxInFlight) =>
             ENABLED (handleSaveCaseworker
                      /\ remoteCall'.op = "assignCaseworkerToAccount")
       /\ (component = "editor" /\ DraftComplete
           /\ EditorInFlight < MaxInFlight) =>
             ENABLED (handleSaveMember
                      /\ remoteCall'.op \in {"createFamilyMember",
                                             "updateFamilyMember"})]_vars

\* After a failed update the modal is still open in edit mode on the edited
\* draft of item m1, nothing is in flight and the busy flag is clear.
C20_Witness ==
    /\ component = "editor"
    /\ showModal
    /\ isEditMode
    /\ fmCurrentMember.id = "m1"
    /\ DraftComplete
    /\ ~isSaving
    /\ EditorInFlight = 0
    /\ remoteCall.op = "none"

\* C21: remove-member with the 0-based index i: for 0 <= i < length of the
\* local list the new list is the old one without the item at position i,
\* the other items unchanged and in the same order (one item fewer); for i
\* outside that range the list is unchanged. The draft buffer and the step
\* cursor are unchanged and no remote call is issued.
C21_RemoveByIndex ==
    [][\A index \in 0..MaxMembers :
         \/ /\ IF index < Len(familyMembers)
               THEN /\ Len(familyMembers') = Len(familyMembers) - 1
                    /\ \A k \in 1..Len(familyMembers') :
                         familyMembers'[k] =
                           familyMembers[IF k <= index THEN k ELSE k + 1]
               ELSE familyMembers' = familyMembers
            /\ UNCHANGED <<currentMember, currentStep>>
            /\ remoteCall'.op = "none"
            /\ submitPending' = submitPending
         \/ ~handleRemoveMember(index)]_vars

\* Of two members added at the readings 1000 and 1001 the first was removed:
\* the later one is now the only item, and a new draft is being typed.
C21_Witness ==
    /\ Len(familyMembers) = 1
    /\ familyMembers[1].tempId = 1001
    /\ currentMember.firstName = "A"
    /\ currentStep = "step3"
    /\ remoteCall.op = "none"

\* C22: whenever the step cursor is at step2 or step3 the applicant's role is
\* non-empty and is not "Caseworker".
C22_HouseholdStepsNeedFamilyRole ==
    currentStep \in {"step2", "step3"} =>
       /\ primaryApplicant.applicationType # ""
       /\ primaryApplicant.applicationType # "Caseworker"

\* A foster parent stands on step3 with a member in the list while a submit
\* is in flight.
C22_Witness ==
    /\ currentStep = "step3"
    /\ primaryApplicant.applicationType = "Foster Parent"
    /\ Len(familyMembers) > 0
    /\ submitPending > 0

\* C23: submitApplication is invoked only with the step cursor at step4, the
\* submitted flag false and the five required applicant fields non-empty.
\* (The submit handler leaves all three as they are, so they are read in the
\* state that holds the call.)
C23_SubmitOnlyFromReview ==
    remoteCall.op = "submitApplication" =>
       /\ currentStep = "step4"
       /\ ~showSuccess
       /\ AllRequiredFilled

====
